---------------------------- MODULE Spec2Model ----------------------------
(***************************************************************************)
(* A model of screensplitter (src/src/main.rs): command-line parsing, the  *)
(* one-shot startup sequence (capture source, window, WM_STATE property,   *)
(* quad and shading program) and the frame-pacing closure handed to the    *)
(* winit event loop.                                                       *)
(*                                                                         *)
(* Time is counted in nanoseconds, as Instant/Duration do.  The clock     *)
(* only moves forward; its origin is the moment display_capture_window    *)
(* reaches main.rs:158, before which no instant is read.                  *)
(*                                                                         *)
(* The closure's events arrive in the order the X11 event loop behind      *)
(* el.run delivers them; texture sampling is taken to return the stored    *)
(* channel values.                                                        *)
(***************************************************************************)
EXTENDS Integers, Sequences, FiniteSets, TLC

VARIABLES
    argv,            \* [monitor, fps, onscreen]: the command line, as characters
    screens,         \* the sizes the capture source of this run can report
    pc,              \* position of the single thread in main.rs
    diag,            \* lines written to the error stream
    monitor_id,      \* main.rs:55
    target_fps,      \* main.rs:63, Settings.target_fps
    offscreen,       \* Settings.offscreen
    window_title,    \* Settings.window_title
    capturer,        \* TRUE once Capturer::new has opened the capture source
    geo,             \* <<width, height>> read at main.rs:88, each a U32
    target_duration, \* main.rs:89, in ns
    window,          \* the created window (<<>> before creation)
    xrequests,       \* property-change requests handed to the X connection
    xflushed,        \* how many of them have been flushed to the server
    vb,              \* TRUE once the quad's vertex buffer exists
    program,         \* TRUE once the shading program is compiled
    now,             \* the monotonic clock, ns
    next_iteration,  \* main.rs:158, the pacing state
    control_flow,    \* winit's ControlFlow: <<"Poll">>, <<"WaitUntil", t>>, <<"Exit">>
    event,           \* main.rs:159, the event last handed to the closure
    early_wakeup,    \* main.rs:160
    start_time,      \* main.rs:165; kept after the tick as the last tick's start
    captured_frame,  \* <<width, height>> of the frame of the running tick
    dest_texture,    \* <<width, height>> of the texture of the running tick
    frame_drawn,     \* TRUE between the draw call and the end of the tick
    presented,       \* <<width, height>> last swapped to the window (<<>> none)
    duration,        \* main.rs:194
    calls,           \* how often each per-tick operation has been called
    ticks,           \* number of ticks started
    px               \* the pixel run through the fragment stage, and how often

vars == <<argv, screens, pc, diag, monitor_id, target_fps, offscreen, window_title,
          capturer, geo, target_duration, window, xrequests, xflushed, vb,
          program, now, next_iteration, control_flow, event, early_wakeup,
          start_time, captured_frame, dest_texture, frame_drawn, presented,
          duration, calls, ticks, px>>

---------------------------------------------------------------------------
(* Bounds of the model.                                                    *)

\* the clock stops after this many steps of the clock
MaxTime == 8
\* at most this many ticks are started
MaxTicks == 3
\* pixel channels are sampled from 0..MaxChannel and the full-scale value
MaxChannel == 1

---------------------------------------------------------------------------
(* Program constants.                                                      *)

\* the numerator of main.rs:89, 1_000_000_000u32
NanosPerSec == 1000000000
\* an 8-bit channel at full scale: the literal 1 (1.0) of main.rs:151
FullScale == 255
\* i32::MAX, the range of `as i32` at main.rs:92
I32Max == 2147483647
\* 2^16: a u32 is kept as its two 16-bit halves, because the values above
\* i32::MAX exceed the integers the model checker can hold
HalfWord == 65536

\* u32::MAX and usize::MAX (64 bit), digit by digit: they exceed the
\* integers the model checker can hold, so overflow is decided on the digits.
U32MaxDigits == <<4, 2, 9, 4, 9, 6, 7, 2, 9, 5>>
UsizeMaxDigits == <<1, 8, 4, 4, 6, 7, 4, 4, 0, 7, 3, 7, 0, 9, 5, 5, 1, 6, 1, 5>>

---------------------------------------------------------------------------
(* str::parse::<u32>() and str::parse::<usize>() (main.rs:55, main.rs:63). *)

Digits == {"0", "1", "2", "3", "4", "5", "6", "7", "8", "9"}

DigitVal(c) ==
    CASE c = "0" -> 0 [] c = "1" -> 1 [] c = "2" -> 2 [] c = "3" -> 3
      [] c = "4" -> 4 [] c = "5" -> 5 [] c = "6" -> 6 [] c = "7" -> 7
      [] c = "8" -> 8 [] c = "9" -> 9

RECURSIVE StripZeros(_)
StripZeros(ds) ==
    IF ds # <<>> /\ Head(ds) = 0 THEN StripZeros(Tail(ds)) ELSE ds

\* ds > max, both digit sequences of the same length
RECURSIVE DigitsGreater(_, _)
DigitsGreater(ds, max) ==
    IF ds = <<>> THEN FALSE
    ELSE IF Head(ds) # Head(max) THEN Head(ds) > Head(max)
    ELSE DigitsGreater(Tail(ds), Tail(max))

\* checked_mul/checked_add overflow exactly when the number exceeds the maximum
Overflows(ds, max) ==
    LET sig == StripZeros(ds) IN
    \/ Len(sig) > Len(max)
    \/ Len(sig) = Len(max) /\ DigitsGreater(sig, max)

RECURSIVE DigitsValue(_, _)
DigitsValue(ds, acc) ==
    IF ds = <<>> THEN acc ELSE DigitsValue(Tail(ds), acc * 10 + Head(ds))

\* An unsigned parse: an optional leading "+", then one or more decimal digits;
\* "-" is no digit for an unsigned type.  [ok, val].
ParseUnsigned(src, max) ==
    LET body == IF src # <<>> /\ Head(src) = "+" THEN Tail(src) ELSE src
        ds   == [i \in 1..Len(body) |-> DigitVal(body[i])]
    IN  IF src = <<>> \/ body = <<>> THEN [ok |-> FALSE, val |-> 0]
        ELSE IF \E i \in 1..Len(body) : body[i] \notin Digits
             THEN [ok |-> FALSE, val |-> 0]
        ELSE IF Overflows(ds, max) THEN [ok |-> FALSE, val |-> 0]
        ELSE [ok |-> TRUE, val |-> DigitsValue(ds, 0)]

ParseUsize(src) == ParseUnsigned(src, UsizeMaxDigits)
ParseU32(src) == ParseUnsigned(src, U32MaxDigits)

---------------------------------------------------------------------------
(* Inputs.                                                                 *)

\* the positional monitor-id argument
MonitorArgs ==
    { <<"1">>, <<"a", "b", "c">>, <<>>, <<"-", "1">>, <<"1", ".", "5">> }

\* the --fps argument.  250000000, 500000000 and 2000000000 frames per second
\* give target intervals of 4, 2 and 0 ns, which keeps the clock small.
FpsArgs ==
    { <<"3", "0">>, <<"0">>, <<"a", "b", "c">>, <<"-", "5">>, <<"+">>,
      <<"2", "5", "0", "0", "0", "0", "0", "0", "0">>,
      <<"+", "5", "0", "0", "0", "0", "0", "0", "0", "0">>,
      <<"2", "0", "0", "0", "0", "0", "0", "0", "0", "0">>,
      <<"4", "2", "9", "4", "9", "6", "7", "2", "9", "6">> }

\* a u32 from its halves, and a u32 below 2^16
U32(hi, lo) == [hi |-> hi, lo |-> lo]
Small(n) == U32(0, n)

\* what the capture source reports as geometry (main.rs:88): the monitor
\* source is an X11 screen, whose dimensions are 16-bit
Geometries == { <<Small(2), Small(1)>>, <<Small(3), Small(2)>> }

\* the dimensions captured frames report (main.rs:169)
FrameSizes == Geometries

\* what a capture source could report beyond that (main.rs:88): the fields
\* of its geometry are u32, and 2^31 is the least value that does not fit the
\* i32 of main.rs:92
WideGeometries ==
    { <<U32(HalfWord \div 2, 0), Small(1)>>,
      <<Small(2), U32(HalfWord \div 2, 0)>> }

\* the step of the clock: 10 ms at ordinary frame rates, 1 ns at the
\* extreme ones above
Quantum == IF target_duration >= 1000 THEN 10000000 ELSE 1

Channels == (0..MaxChannel) \cup {FullScale}
Pixels == [r : Channels, g : Channels, b : Channels, a : Channels]

TickOps == {"capture", "texture", "draw", "present"}

---------------------------------------------------------------------------
(* Pure helpers of the program.                                            *)

\* i32::MIN
I32Min == (0 - I32Max) - 1

\* `x as i32` of a u32 (main.rs:92): the same 32 bits read as two's complement
AsI32(x) ==
    IF x.hi < HalfWord \div 2
    THEN x.hi * HalfWord + x.lo
    ELSE (x.hi - HalfWord) * HalfWord + x.lo

\* `x * -1` of an i32 (main.rs:253-254) overflows for i32::MIN alone: the
\* build with overflow checks panics, the build without them wraps
NegOverflows(x) == x = I32Min
WrappingNeg(x) == IF x = I32Min THEN I32Min ELSE 0 - x

\* main.rs:89: Duration::new(0, 1_000_000_000u32 / target_fps), in ns
TargetDuration(fps) == NanosPerSec \div fps

\* mutant: the comparison of main.rs:160 inverted
EarlyWakeupInverted(next, t) == next < t

\* main.rs:160
EarlyWakeup(next, t) == next > t

\* mutant: main.rs:195-200 without the clamp at zero
NextIterationNoClamp(t, target, d) == t + (target - d)

\* main.rs:195-200
NextIteration(t, target, d) ==
    IF target >= d THEN t + (target - d) ELSE t

\* mutant: the channels rotated instead of red and blue swapped
FragmentShaderRotated(c) == [r |-> c.g, g |-> c.b, b |-> c.r, a |-> FullScale]

\* main.rs:151: gl_FragColor = vec4(textureColor.b, textureColor.g, textureColor.r, 1)
FragmentShader(c) == [r |-> c.b, g |-> c.g, b |-> c.r, a |-> FullScale]

---------------------------------------------------------------------------
(* Values of the state.                                                    *)

Poll == <<"Poll">>
Exit == <<"Exit">>
WaitUntil(t) == <<"WaitUntil", t>>

\* main.rs:262-271: the request built by xlib.change_property
WmStateRequest ==
    [window |-> "window_id", property |-> "WM_STATE", type |-> "WM_STATE",
     mode |-> "Replace", data |-> <<1, 0>>]

\* positions at which the event loop is running (el.run has been entered)
LoopPcs ==
    {"new_events", "tick_start", "capture", "texture", "draw", "finish",
     "elapsed", "set_next", "arm", "rearm", "drain", "redraw", "check",
     "poll", "loop_destroyed"}

\* positions inside the tick arm of the closure (main.rs:164-202)
TickPcs ==
    {"tick_start", "capture", "texture", "draw", "finish", "elapsed",
     "set_next", "arm"}

Panic(msg) ==
    /\ pc' = "panicked"
    /\ diag' = Append(diag, msg)

---------------------------------------------------------------------------
(* The state after process start: nothing parsed, nothing acquired.        *)

InitWith(args, sizes, pixels, start) ==
    /\ argv \in args
    /\ screens = sizes
    /\ pc = start
    /\ diag = <<>>
    /\ monitor_id = 0
    /\ target_fps = 0
    /\ offscreen = FALSE
    /\ window_title = <<>>
    /\ capturer = FALSE
    /\ geo = <<>>
    /\ target_duration = 0
    /\ window = <<>>
    /\ xrequests = <<>>
    /\ xflushed = 0
    /\ vb = FALSE
    /\ program = FALSE
    /\ now = 0
    /\ next_iteration = 0
    /\ control_flow = Poll
    /\ event = "none"
    /\ early_wakeup = FALSE
    /\ start_time = 0
    /\ captured_frame = <<>>
    /\ dest_texture = <<>>
    /\ frame_drawn = FALSE
    /\ presented = <<>>
    /\ duration = 0
    /\ calls = [op \in TickOps |-> 0]
    /\ ticks = 0
    /\ px \in [orig : pixels, cur : pixels, n : {0}]
    /\ px.cur = px.orig

Init ==
    InitWith([monitor : MonitorArgs, fps : FpsArgs, onscreen : BOOLEAN],
             Geometries, {[r |-> 0, g |-> 0, b |-> 0, a |-> 0]},
             "parse_monitor")

\* The same start with a capture source that is not held to the sizes of an
\* X11 screen.
InitAnySource ==
    InitWith([monitor : MonitorArgs, fps : FpsArgs, onscreen : BOOLEAN],
             Geometries \cup WideGeometries,
             {[r |-> 0, g |-> 0, b |-> 0, a |-> 0]}, "parse_monitor")

---------------------------------------------------------------------------
(* main (main.rs:28-83).                                                   *)

loopVars == <<now, next_iteration, control_flow, event, early_wakeup,
              start_time,
              captured_frame, dest_texture, frame_drawn, presented, duration,
              calls, ticks>>
setupVars == <<capturer, geo, target_duration, window, xrequests, xflushed,
               vb, program>>
mainVars == <<argv, screens, monitor_id, target_fps, offscreen, window_title>>

\* main.rs:55-61
ParseMonitor ==
    /\ pc = "parse_monitor"
    /\ LET r == ParseUsize(argv.monitor) IN
       IF r.ok
       THEN /\ monitor_id' = r.val
            /\ pc' = "parse_fps"
            /\ diag' = diag
       ELSE /\ diag' = Append(diag, "Monitor ID must be an integer")
            /\ pc' = "exited"
            /\ monitor_id' = monitor_id
    /\ UNCHANGED <<argv, screens, target_fps, offscreen, window_title, setupVars,
                   loopVars, px>>

\* mutant: the error arm of main.rs:65-68 without its return
ParseFpsNoReturn ==
    /\ pc = "parse_fps"
    /\ LET r == ParseU32(argv.fps) IN
       IF r.ok
       THEN /\ target_fps' = r.val
            /\ diag' = diag
       ELSE /\ diag' = Append(diag, "Target frames per second must be integer")
            /\ target_fps' = target_fps
    /\ pc' = "settings"
    /\ UNCHANGED <<argv, screens, monitor_id, offscreen, window_title, setupVars,
                   loopVars, px>>

\* main.rs:63-69
ParseFps ==
    /\ pc = "parse_fps"
    /\ LET r == ParseU32(argv.fps) IN
       IF r.ok
       THEN /\ target_fps' = r.val
            /\ pc' = "settings"
            /\ diag' = diag
       ELSE /\ diag' = Append(diag, "Target frames per second must be integer")
            /\ pc' = "exited"
            /\ target_fps' = target_fps
    /\ UNCHANGED <<argv, screens, monitor_id, offscreen, window_title, setupVars,
                   loopVars, px>>

\* main.rs:71-82
BuildSettings ==
    /\ pc = "settings"
    /\ offscreen' = ~argv.onscreen
    /\ window_title' = <<"Monitor", monitor_id>>
    /\ pc' = "open"
    /\ UNCHANGED <<argv, screens, diag, monitor_id, target_fps, setupVars, loopVars, px>>

---------------------------------------------------------------------------
(* display_capture_window up to the event loop (main.rs:86-158) and        *)
(* create_offscreen_window (main.rs:230-277).                              *)

\* main.rs:87
OpenCapturer ==
    /\ pc = "open"
    /\ capturer' = TRUE
    /\ pc' = "geometry"
    /\ UNCHANGED <<mainVars, diag, geo, target_duration, window, xrequests,
                   xflushed, vb, program, loopVars, px>>

\* main.rs:87, Capturer::new returns Err
OpenCapturerFails ==
    /\ pc = "open"
    /\ Panic("Unable to create screen capturer")
    /\ UNCHANGED <<mainVars, setupVars, loopVars, px>>

\* main.rs:88
GetGeometry ==
    /\ pc = "geometry"
    /\ \E g \in screens : geo' = g
    /\ pc' = "target"
    /\ UNCHANGED <<mainVars, diag, capturer, target_duration, window,
                   xrequests, xflushed, vb, program, loopVars, px>>

\* main.rs:89: an integer division, which panics on a zero divisor
ComputeTargetDuration ==
    /\ pc = "target"
    /\ IF target_fps = 0
       THEN /\ Panic("attempt to divide by zero")
            /\ target_duration' = target_duration
       ELSE /\ target_duration' = TargetDuration(target_fps)
            /\ pc' = "window"
            /\ diag' = diag
    /\ UNCHANGED <<mainVars, capturer, geo, window, xrequests, xflushed, vb,
                   program, loopVars, px>>

\* main.rs:92 and main.rs:238-248
CreateWindow ==
    /\ pc = "window"
    /\ window' = [title |-> window_title,
                  size |-> <<AsI32(geo[1]), AsI32(geo[2])>>,
                  override_redirect |-> offscreen,
                  position |-> <<>>]
    /\ pc' = "position"
    /\ UNCHANGED <<mainVars, diag, capturer, geo, target_duration, xrequests,
                   xflushed, vb, program, loopVars, px>>

\* main.rs:244, glium::Display::new returns Err
CreateWindowFails ==
    /\ pc = "window"
    /\ Panic("called Result::unwrap() on an Err value")
    /\ UNCHANGED <<mainVars, setupVars, loopVars, px>>

\* mutant: the move of main.rs:252-255 outside the test of config.offscreen
PositionWindowAlways ==
    /\ pc = "position"
    /\ window' = [window EXCEPT !.position =
                     <<WrappingNeg(window.size[1]),
                       WrappingNeg(window.size[2])>>]
    /\ pc' = "property"
    /\ UNCHANGED <<mainVars, diag, capturer, geo, target_duration, xrequests,
                   xflushed, vb, program, loopVars, px>>

\* main.rs:250-256: width and height are the i32 arguments of main.rs:92.  A
\* product that overflows panics in the build with overflow checks, before
\* set_outer_position is called, and wraps in the build without them.
PositionWindow ==
    /\ pc = "position"
    /\ IF offscreen
          /\ (NegOverflows(window.size[1]) \/ NegOverflows(window.size[2]))
       THEN \/ /\ Panic("attempt to multiply with overflow")
               /\ window' = window
            \/ /\ window' = [window EXCEPT !.position =
                                <<WrappingNeg(window.size[1]),
                                  WrappingNeg(window.size[2])>>]
               /\ pc' = "property"
               /\ diag' = diag
       ELSE /\ window' = IF offscreen
                         THEN [window EXCEPT !.position =
                                  <<WrappingNeg(window.size[1]),
                                    WrappingNeg(window.size[2])>>]
                         ELSE window
            /\ pc' = "property"
            /\ diag' = diag
    /\ UNCHANGED <<mainVars, capturer, geo, target_duration, xrequests,
                   xflushed, vb, program, loopVars, px>>

\* mutant: the payload of main.rs:267-270 in the wrong order
ChangePropertySwapped ==
    /\ pc = "property"
    /\ xrequests' = Append(xrequests, [WmStateRequest EXCEPT !.data = <<0, 1>>])
    /\ pc' = "flush"
    /\ UNCHANGED <<mainVars, diag, capturer, geo, target_duration, window,
                   xflushed, vb, program, loopVars, px>>

\* main.rs:258-271
ChangeProperty ==
    /\ pc = "property"
    /\ xrequests' = Append(xrequests, WmStateRequest)
    /\ pc' = "flush"
    /\ UNCHANGED <<mainVars, diag, capturer, geo, target_duration, window,
                   xflushed, vb, program, loopVars, px>>

\* main.rs:259-260, el.xlib_xconnection() or window.xlib_window() is None:
\* the unwrap panics before any property is changed
ChangePropertyFails ==
    /\ pc = "property"
    /\ Panic("called Option::unwrap() on a None value")
    /\ UNCHANGED <<mainVars, setupVars, loopVars, px>>

\* main.rs:272-273
FlushProperty ==
    /\ pc = "flush"
    /\ xflushed' = Len(xrequests)
    /\ pc' = "vertex_buffer"
    /\ UNCHANGED <<mainVars, diag, capturer, geo, target_duration, window,
                   xrequests, vb, program, loopVars, px>>

\* main.rs:272-273, flush returns Err
FlushPropertyFails ==
    /\ pc = "flush"
    /\ Panic("called Result::unwrap() on an Err value")
    /\ UNCHANGED <<mainVars, setupVars, loopVars, px>>

\* main.rs:101-121
BuildVertexBuffer ==
    /\ pc = "vertex_buffer"
    /\ vb' = TRUE
    /\ pc' = "shaders"
    /\ UNCHANGED <<mainVars, diag, capturer, geo, target_duration, window,
                   xrequests, xflushed, program, loopVars, px>>

\* main.rs:118, glium::VertexBuffer::new returns Err
BuildVertexBufferFails ==
    /\ pc = "vertex_buffer"
    /\ Panic("called Result::unwrap() on an Err value")
    /\ UNCHANGED <<mainVars, setupVars, loopVars, px>>

\* main.rs:123-156
CompileProgram ==
    /\ pc = "shaders"
    /\ program' = TRUE
    /\ pc' = "init_pacing"
    /\ UNCHANGED <<mainVars, diag, capturer, geo, target_duration, window,
                   xrequests, xflushed, vb, loopVars, px>>

\* main.rs:156, Program::from_source returns Err
CompileProgramFails ==
    /\ pc = "shaders"
    /\ Panic("Error compiling shaders")
    /\ UNCHANGED <<mainVars, setupVars, loopVars, px>>

\* mutant: the first wakeup scheduled one target interval ahead
InitPacingAhead ==
    /\ pc = "init_pacing"
    /\ next_iteration' = now + target_duration
    /\ pc' = "new_events"
    /\ UNCHANGED <<mainVars, event, diag, setupVars, now, control_flow,
                   early_wakeup, start_time, captured_frame, dest_texture,
                   frame_drawn, presented, duration, calls, ticks, px>>

\* main.rs:158-159: the pacing state is initialised and el.run is entered;
\* the loop starts by dispatching NewEvents(Init)
InitPacing ==
    /\ pc = "init_pacing"
    /\ next_iteration' = now
    /\ pc' = "new_events"
    /\ UNCHANGED <<mainVars, event, diag, setupVars, now, control_flow, early_wakeup,
                   start_time, captured_frame, dest_texture, frame_drawn,
                   presented, duration, calls, ticks, px>>

---------------------------------------------------------------------------
(* The clock.  It advances while the event loop runs, at any position of   *)
(* the closure, so that work takes time and waits can time out.            *)

Advance ==
    /\ pc \in LoopPcs \cup {"init_pacing"}
    /\ now < MaxTime * Quantum
    /\ now' = now + Quantum
    /\ UNCHANGED <<mainVars, event, pc, diag, setupVars, next_iteration, control_flow,
                   early_wakeup, start_time, captured_frame, dest_texture,
                   frame_drawn, presented, duration, calls, ticks,
                   px>>

---------------------------------------------------------------------------
(* The closure of el.run, Event::NewEvents (main.rs:159-206).              *)

idleVars == <<mainVars, diag, setupVars, px>>
\* what a step inside a handler leaves alone
inVars == <<idleVars, event>>

\* main.rs:160-164 and 203: a NewEvents event enters the closure, which reads
\* the clock once and takes the tick arm or the early-wakeup arm
NewEvents ==
    /\ pc = "new_events"
    /\ event' = "NewEvents"
    /\ early_wakeup' = EarlyWakeup(next_iteration, now)
    /\ pc' = IF early_wakeup' THEN "rearm" ELSE "tick_start"
    /\ early_wakeup' \/ ticks < MaxTicks
    /\ UNCHANGED <<idleVars, now, next_iteration, control_flow, start_time,
                   captured_frame, dest_texture, frame_drawn, presented,
                   duration, calls, ticks>>

\* main.rs:165
TickStart ==
    /\ pc = "tick_start"
    /\ start_time' = now
    /\ ticks' = ticks + 1
    /\ pc' = "capture"
    /\ UNCHANGED <<inVars, now, next_iteration, control_flow, early_wakeup,
                   captured_frame, dest_texture, frame_drawn, presented,
                   duration, calls>>

\* mutant: the geometry read again from every captured frame
CaptureFrameUpdatesGeometry ==
    /\ pc = "capture"
    /\ \E dims \in FrameSizes : captured_frame' = dims /\ geo' = dims
    /\ calls' = [calls EXCEPT !["capture"] = @ + 1]
    /\ pc' = "texture"
    /\ UNCHANGED <<mainVars, diag, px, event, capturer, target_duration,
                   window, xrequests, xflushed, vb, program, now,
                   next_iteration, control_flow, early_wakeup, start_time,
                   dest_texture, frame_drawn, presented, duration, ticks>>

\* main.rs:168-176: the frame reports its own dimensions
CaptureFrame ==
    /\ pc = "capture"
    /\ \E dims \in FrameSizes : captured_frame' = dims
    /\ calls' = [calls EXCEPT !["capture"] = @ + 1]
    /\ pc' = "texture"
    /\ UNCHANGED <<inVars, now, next_iteration, control_flow, early_wakeup,
                   start_time, dest_texture, frame_drawn, presented, duration,
                   ticks>>

\* mutant: a failed capture reported and tried again instead of aborting
CaptureFrameFailsRetries ==
    /\ pc = "capture"
    /\ Len(diag) < 1
    /\ calls' = [calls EXCEPT !["capture"] = @ + 1]
    /\ diag' = Append(diag, "Failed to capture frame")
    /\ UNCHANGED <<mainVars, event, pc, setupVars, px, now, next_iteration,
                   control_flow, early_wakeup, start_time, captured_frame,
                   dest_texture, frame_drawn, presented, duration, ticks>>

\* main.rs:168, capture_frame returns Err
CaptureFrameFails ==
    /\ pc = "capture"
    /\ calls' = [calls EXCEPT !["capture"] = @ + 1]
    /\ Panic("Failed to capture frame")
    /\ UNCHANGED <<mainVars, event, setupVars, px, now, next_iteration, control_flow,
                   early_wakeup, start_time, captured_frame, dest_texture,
                   frame_drawn, presented, duration, ticks>>

\* mutant: the texture sized by the startup geometry
TextureSizeOfGeometry(frame, geometry) == geometry

\* main.rs:169 and 179-180: the size the texture is built with
TextureSize(frame, geometry) == frame

\* main.rs:179-183
CreateTexture ==
    /\ pc = "texture"
    /\ dest_texture' = TextureSize(captured_frame, geo)
    /\ calls' = [calls EXCEPT !["texture"] = @ + 1]
    /\ pc' = "draw"
    /\ UNCHANGED <<inVars, now, next_iteration, control_flow, early_wakeup,
                   start_time, captured_frame, frame_drawn, presented,
                   duration, ticks>>

\* main.rs:183, SrgbTexture2d::new returns Err
CreateTextureFails ==
    /\ pc = "texture"
    /\ calls' = [calls EXCEPT !["texture"] = @ + 1]
    /\ Panic("Unable to create texture")
    /\ UNCHANGED <<mainVars, event, setupVars, px, now, next_iteration, control_flow,
                   early_wakeup, start_time, captured_frame, dest_texture,
                   frame_drawn, presented, duration, ticks>>

\* mutant: the draw call not followed by target.finish()
DrawFrameWithoutFinish ==
    /\ pc = "draw"
    /\ frame_drawn' = TRUE
    /\ calls' = [calls EXCEPT !["draw"] = @ + 1]
    /\ pc' = "elapsed"
    /\ UNCHANGED <<inVars, now, next_iteration, control_flow, early_wakeup,
                   start_time, captured_frame, dest_texture, presented,
                   duration, ticks>>

\* main.rs:186-190
DrawFrame ==
    /\ pc = "draw"
    /\ frame_drawn' = TRUE
    /\ calls' = [calls EXCEPT !["draw"] = @ + 1]
    /\ pc' = "finish"
    /\ UNCHANGED <<inVars, now, next_iteration, control_flow, early_wakeup,
                   start_time, captured_frame, dest_texture, presented,
                   duration, ticks>>

\* main.rs:190, draw returns Err
DrawFrameFails ==
    /\ pc = "draw"
    /\ calls' = [calls EXCEPT !["draw"] = @ + 1]
    /\ Panic("Unable to execute shader")
    /\ UNCHANGED <<mainVars, event, setupVars, px, now, next_iteration, control_flow,
                   early_wakeup, start_time, captured_frame, dest_texture,
                   frame_drawn, presented, duration, ticks>>

\* main.rs:191
FinishFrame ==
    /\ pc = "finish"
    /\ presented' = dest_texture
    /\ calls' = [calls EXCEPT !["present"] = @ + 1]
    /\ pc' = "elapsed"
    /\ UNCHANGED <<inVars, now, next_iteration, control_flow, early_wakeup,
                   start_time, captured_frame, dest_texture, frame_drawn,
                   duration, ticks>>

\* main.rs:191, finish returns Err
FinishFrameFails ==
    /\ pc = "finish"
    /\ calls' = [calls EXCEPT !["present"] = @ + 1]
    /\ Panic("Buffer swap failed")
    /\ UNCHANGED <<mainVars, event, setupVars, px, now, next_iteration, control_flow,
                   early_wakeup, start_time, captured_frame, dest_texture,
                   frame_drawn, presented, duration, ticks>>

\* main.rs:194
MeasureDuration ==
    /\ pc = "elapsed"
    /\ duration' = now - start_time
    /\ pc' = "set_next"
    /\ UNCHANGED <<inVars, now, next_iteration, control_flow, early_wakeup,
                   start_time, captured_frame, dest_texture, frame_drawn,
                   presented, calls, ticks>>

\* main.rs:195-200
SetNextIteration ==
    /\ pc = "set_next"
    /\ next_iteration' = NextIteration(now, target_duration, duration)
    /\ pc' = "arm"
    /\ UNCHANGED <<inVars, now, control_flow, early_wakeup, start_time,
                   captured_frame, dest_texture, frame_drawn, presented,
                   duration, calls, ticks>>

\* mutant: the tick arm waiting for the next event without a deadline
ArmWaitIndefinitely ==
    /\ pc = "arm"
    /\ control_flow' = <<"Wait">>
    /\ captured_frame' = <<>>
    /\ dest_texture' = <<>>
    /\ frame_drawn' = FALSE
    /\ duration' = 0
    /\ pc' = "drain"
    /\ UNCHANGED <<inVars, now, next_iteration, early_wakeup, start_time,
                   presented, calls, ticks>>

\* mutant: the tick arm asking to be polled instead of woken at the deadline
ArmWaitPoll ==
    /\ pc = "arm"
    /\ control_flow' = Poll
    /\ captured_frame' = <<>>
    /\ dest_texture' = <<>>
    /\ frame_drawn' = FALSE
    /\ duration' = 0
    /\ pc' = "drain"
    /\ UNCHANGED <<inVars, now, next_iteration, early_wakeup, start_time,
                   presented, calls, ticks>>

\* main.rs:201-202: the wait is armed; the tick's frame, texture and measured
\* duration go out of scope with the arm
ArmWait ==
    /\ pc = "arm"
    /\ control_flow' = WaitUntil(next_iteration)
    /\ captured_frame' = <<>>
    /\ dest_texture' = <<>>
    /\ frame_drawn' = FALSE
    /\ duration' = 0
    /\ pc' = "drain"
    /\ UNCHANGED <<inVars, now, next_iteration, early_wakeup, start_time,
                   presented, calls, ticks>>

\* mutant: the early-wakeup arm starting a fresh interval
RearmWaitFromNow ==
    /\ pc = "rearm"
    /\ next_iteration' = now + target_duration
    /\ control_flow' = WaitUntil(next_iteration')
    /\ pc' = "drain"
    /\ UNCHANGED <<inVars, now, early_wakeup, start_time, captured_frame,
                   dest_texture, frame_drawn, presented, duration, calls,
                   ticks>>

\* main.rs:203-206
RearmWait ==
    /\ pc = "rearm"
    /\ control_flow' = WaitUntil(next_iteration)
    /\ pc' = "drain"
    /\ UNCHANGED <<inVars, now, next_iteration, early_wakeup, start_time,
                   captured_frame, dest_texture, frame_drawn, presented,
                   duration, calls, ticks>>

---------------------------------------------------------------------------
(* The other events of one loop iteration, in the order the X11 event loop *)
(* behind el.run delivers them: after NewEvents the pending window events, *)
(* then MainEventsCleared and RedrawEventsCleared; then the loop looks at  *)
(* control_flow and either ends with LoopDestroyed or waits.               *)

\* mutant: the close request falling through to the catch-all arm
CloseRequestedIgnored ==
    /\ pc = "drain"
    /\ event' = "CloseRequested"
    /\ UNCHANGED <<idleVars, pc, now, next_iteration, control_flow,
                   early_wakeup, start_time, captured_frame, dest_texture,
                   frame_drawn, presented, duration, calls, ticks>>

\* main.rs:207-208
CloseRequested ==
    /\ pc = "drain"
    /\ event' = "CloseRequested"
    /\ control_flow' = Exit
    /\ UNCHANGED <<idleVars, pc, now, next_iteration, early_wakeup, start_time,
                   captured_frame, dest_texture, frame_drawn, presented,
                   duration, calls, ticks>>

\* mutant: any window event starting a fresh wait from the current time
OtherWindowEventRearms ==
    /\ pc = "drain"
    /\ event' = "WindowEvent"
    /\ next_iteration' = now
    /\ control_flow' = IF control_flow = Exit THEN Exit ELSE WaitUntil(now)
    /\ UNCHANGED <<idleVars, pc, now, early_wakeup, start_time, captured_frame,
                   dest_texture, frame_drawn, presented, duration, calls,
                   ticks>>

\* mutant: every window event treated as a close request
OtherWindowEventExits ==
    /\ pc = "drain"
    /\ event' = "WindowEvent"
    /\ control_flow' = Exit
    /\ UNCHANGED <<idleVars, pc, now, next_iteration, early_wakeup, start_time,
                   captured_frame, dest_texture, frame_drawn, presented,
                   duration, calls, ticks>>

\* main.rs:207-210, any other window event
OtherWindowEvent ==
    /\ pc = "drain"
    /\ event' = "WindowEvent"
    /\ UNCHANGED <<idleVars, pc, now, next_iteration, control_flow,
                   early_wakeup, start_time, captured_frame, dest_texture,
                   frame_drawn, presented, duration, calls, ticks>>

\* main.rs:211, Event::MainEventsCleared
MainEventsCleared ==
    /\ pc = "drain"
    /\ event' = "MainEventsCleared"
    /\ pc' = "redraw"
    /\ UNCHANGED <<idleVars, now, next_iteration, control_flow, early_wakeup,
                   start_time, captured_frame, dest_texture, frame_drawn,
                   presented, duration, calls, ticks>>

\* main.rs:211, Event::RedrawEventsCleared
RedrawEventsCleared ==
    /\ pc = "redraw"
    /\ event' = "RedrawEventsCleared"
    /\ pc' = "check"
    /\ UNCHANGED <<idleVars, now, next_iteration, control_flow, early_wakeup,
                   start_time, captured_frame, dest_texture, frame_drawn,
                   presented, duration, calls, ticks>>

\* main.rs:159: el.run acts on the control flow the closure left
LoopControl ==
    /\ pc = "check"
    /\ pc' = IF control_flow = Exit THEN "loop_destroyed" ELSE "poll"
    /\ UNCHANGED <<idleVars, loopVars>>

\* the wait requested at main.rs:201 and 205 has run out
DeadlineReached(cf, t) ==
    cf = Poll \/ (cf[1] = "WaitUntil" /\ t >= cf[2])

\* main.rs:201, 205: the wait ends at its deadline
WaitTimeout ==
    /\ pc = "poll"
    /\ DeadlineReached(control_flow, now)
    /\ pc' = "new_events"
    /\ UNCHANGED <<idleVars, loopVars>>

\* main.rs:159: a window-system event cuts the wait short
WaitCancelled ==
    /\ pc = "poll"
    /\ pc' = "new_events"
    /\ UNCHANGED <<idleVars, loopVars>>

\* main.rs:163
LoopDestroyed ==
    /\ pc = "loop_destroyed"
    /\ event' = "LoopDestroyed"
    /\ pc' = "done"
    /\ UNCHANGED <<idleVars, now, next_iteration, control_flow, early_wakeup,
                   start_time, captured_frame, dest_texture, frame_drawn,
                   presented, duration, calls, ticks>>

---------------------------------------------------------------------------
(* The fragment stage on its own (main.rs:143-153).                        *)

ApplyFragmentShader ==
    /\ pc = "fragment"
    /\ px.n < 2
    /\ px' = [px EXCEPT !.cur = FragmentShader(@), !.n = @ + 1]
    /\ UNCHANGED <<mainVars, pc, diag, setupVars, loopVars>>

---------------------------------------------------------------------------

Startup ==
    \/ ParseMonitor \/ ParseFps \/ BuildSettings
    \/ OpenCapturer \/ OpenCapturerFails \/ GetGeometry
    \/ ComputeTargetDuration
    \/ CreateWindow \/ CreateWindowFails
    \/ PositionWindow
    \/ ChangeProperty \/ ChangePropertyFails
    \/ FlushProperty \/ FlushPropertyFails
    \/ BuildVertexBuffer \/ BuildVertexBufferFails
    \/ CompileProgram \/ CompileProgramFails
    \/ InitPacing

Tick ==
    \/ TickStart \/ CaptureFrame \/ CaptureFrameFails
    \/ CreateTexture \/ CreateTextureFails
    \/ DrawFrame \/ DrawFrameFails
    \/ FinishFrame \/ FinishFrameFails
    \/ MeasureDuration \/ SetNextIteration \/ ArmWait

EventLoop ==
    \/ NewEvents \/ RearmWait
    \/ CloseRequested \/ OtherWindowEvent
    \/ MainEventsCleared \/ RedrawEventsCleared
    \/ LoopControl \/ WaitTimeout \/ WaitCancelled \/ LoopDestroyed

Next == Startup \/ Tick \/ EventLoop \/ Advance

Spec == Init /\ [][Next]_vars

\* The program on a capture source that may report any u32 sizes
AnySourceSpec == InitAnySource /\ [][Next]_vars

\* The fragment stage applied to every sampled pixel
InitShader ==
    InitWith([monitor : {<<"1">>}, fps : {<<"3", "0">>}, onscreen : {FALSE}],
             Geometries, Pixels, "fragment")

ShaderSpec == InitShader /\ [][ApplyFragmentShader]_vars

\* The thread keeps running: a handler that has started finishes, the pending
\* events of an iteration are finite, and a wait that has run out ends.  When
\* window-system events arrive and how fast the clock moves is left open.
ProgramStep ==
    \/ Startup \/ Tick
    \/ NewEvents \/ RearmWait
    \/ MainEventsCleared \/ RedrawEventsCleared
    \/ LoopControl \/ WaitTimeout \/ LoopDestroyed

LiveSpec == Spec /\ WF_vars(ProgramStep)

\* In addition time passes: the clock does not stand still for ever.
PacedSpec == LiveSpec /\ WF_vars(Advance)

---------------------------------------------------------------------------
(* Properties.                                                             *)

Max(a, b) == IF a >= b THEN a ELSE b

\* el.run has been entered and create_offscreen_window has returned
AfterWindowPcs == {"vertex_buffer", "shaders", "init_pacing", "done"} \cup LoopPcs

\* C1: the start times of two consecutive ticks differ by at least the target
\* interval, and the target interval is floor(10^9 / target_fps) ns.
TickSpacing ==
    [][(pc = "tick_start" /\ pc' = "capture" /\ ticks >= 1) =>
          /\ start_time' >= start_time + target_duration
          /\ target_duration * target_fps <= NanosPerSec
          /\ NanosPerSec < (target_duration + 1) * target_fps]_vars

\* C1 witness: a second tick started exactly one (non-zero) target interval
\* after the first, which started when the loop did.
TickSpacingWitness ==
    /\ pc = "capture"
    /\ ticks = 2
    /\ target_duration > 0
    /\ start_time = target_duration

\* C2: a NewEvents event handled strictly before next_iteration takes the
\* early-wakeup arm, which captures and draws nothing, leaves next_iteration
\* alone and sets control_flow to WaitUntil(next_iteration).
EarlyWakeupRearmsOnly ==
    [][/\ (pc = "new_events" /\ pc' # pc /\ now < next_iteration) => pc' = "rearm"
       /\ (pc = "rearm") =>
             /\ next_iteration' = next_iteration
             /\ calls' = calls
             /\ ticks' = ticks
             /\ presented' = presented
             /\ captured_frame' = <<>> /\ dest_texture' = <<>>
             /\ pc' \in {"rearm", "drain"}
             /\ pc' = "drain" => control_flow' = WaitUntil(next_iteration)]_vars

\* C2 witness: an early wakeup after a tick has been handled and the wait is
\* armed again for the deadline that tick set.
EarlyWakeupWitness ==
    /\ pc = "drain"
    /\ event = "NewEvents"
    /\ early_wakeup
    /\ ticks = 1
    /\ now < next_iteration
    /\ control_flow = WaitUntil(next_iteration)

\* C3: the step that sets next_iteration sets it to now + max(target - d, 0),
\* with now read after the work: never earlier than the end of the measured
\* work; at 30 fps and d = 10 ms this is now + 23333333 ns.
NextWakeupFormula ==
    [][(pc = "set_next" /\ pc' = "arm") =>
          /\ next_iteration' = now + Max(target_duration - duration, 0)
          /\ duration <= target_duration =>
                next_iteration' = now + (target_duration - duration)
          /\ duration > target_duration => next_iteration' = now
          /\ next_iteration' >= start_time + duration
          /\ (target_fps = 30 /\ duration = 10000000) =>
                next_iteration' = now + 23333333]_vars

\* C3 witness: 30 fps, a tick measured at 10 ms, the wake 23333333 ns after
\* the clock value read when it was set.
NextWakeupWitness ==
    /\ pc = "arm"
    /\ target_fps = 30
    /\ duration = 10000000
    /\ next_iteration = now + 23333333

\* C3, the clamped case: a tick longer than the target interval.
NextWakeupClampWitness ==
    /\ pc = "arm"
    /\ duration > target_duration
    /\ next_iteration = now

\* C4: with --onscreen no WM_STATE property change is ever requested.
NoPropertyChangeOnscreen ==
    argv.onscreen => xrequests = <<>>

\* C5: off-screen, the only property change of the session is the one of
\* create_offscreen_window: WM_STATE, typed WM_STATE, payload [1, 0], on the
\* created window, flushed before the function returns.
WmStateSetOnce ==
    ~argv.onscreen =>
       /\ Len(xrequests) <= 1
       /\ xflushed <= Len(xrequests)
       /\ \A i \in 1..Len(xrequests) :
             /\ xrequests[i].window = "window_id"
             /\ xrequests[i].property = "WM_STATE"
             /\ xrequests[i].type = "WM_STATE"
             /\ xrequests[i].data = <<1, 0>>
       /\ pc \in AfterWindowPcs => (Len(xrequests) = 1 /\ xflushed = 1)
       /\ ticks > 0 => (Len(xrequests) = 1 /\ xflushed = 1)

\* C5 witness: off-screen, two ticks done, still the one flushed request.
WmStateSetOnceWitness ==
    /\ offscreen
    /\ ticks = 2
    /\ pc = "drain"
    /\ Len(xrequests) = 1
    /\ xflushed = 1

\* the u32 x and the i32 y are the same number
SameNumber(x, y) == x.hi < HalfWord \div 2 /\ y = x.hi * HalfWord + x.lo

\* C6: the window has the startup geometry as size and override-redirect equal
\* to offscreen; off-screen it is moved to (-width, -height) in the step after
\* its creation, otherwise no position is requested.
WindowPlacement ==
    window # <<>> =>
       /\ \A i \in 1..2 : SameNumber(geo[i], window.size[i])
       /\ window.override_redirect = offscreen
       /\ offscreen = ~argv.onscreen
       /\ pc = "position" => window.position = <<>>
       /\ (pc # "position" /\ offscreen) =>
             /\ window.position # <<>>
             /\ \A i \in 1..2 : window.position[i] = 0 - window.size[i]
       /\ ~offscreen => window.position = <<>>

\* C6 witness: an off-screen 3x2 window right after the move.
WindowPlacementWitness ==
    /\ pc = "property"
    /\ offscreen
    /\ geo = <<Small(3), Small(2)>>
    /\ window.size = <<3, 2>>
    /\ window.position = <<-3, -2>>

\* C7: handling CloseRequested sets control_flow to Exit; from then on it stays
\* Exit, no tick starts and nothing is captured or drawn, and the loop ends
\* with LoopDestroyed.
CloseTerminates ==
    /\ [][/\ event' = "CloseRequested" => control_flow' = Exit
          /\ control_flow = Exit =>
                /\ control_flow' = Exit
                /\ ticks' = ticks
                /\ calls' = calls
                /\ pc' \notin TickPcs]_vars
    /\ (event = "CloseRequested") ~> (pc = "done" /\ event = "LoopDestroyed")

\* C7 witness: the loop has ended after a close request that arrived during
\* the wait between ticks, before the pending wakeup.
CloseTerminatesWitness ==
    /\ pc = "done"
    /\ control_flow = Exit
    /\ ticks = 1
    /\ early_wakeup
    /\ now < next_iteration

\* the arguments that are no unsigned decimal integers of the parsed type
BadMonitorArgs == { <<"a", "b", "c">>, <<>>, <<"-", "1">>, <<"1", ".", "5">> }
BadFpsArgs ==
    { <<"a", "b", "c">>, <<"-", "5">>, <<"+">>,
      <<"4", "2", "9", "4", "9", "6", "7", "2", "9", "6">> }

\* C8: when the monitor or the --fps argument does not parse, the process
\* prints one diagnostic and exits; the capture source is never opened, no
\* window is created, no property change requested, the loop never entered.
BadArgumentExits ==
    (argv.monitor \in BadMonitorArgs \/ argv.fps \in BadFpsArgs) =>
       /\ pc \in {"parse_monitor", "parse_fps", "exited"}
       /\ ~capturer
       /\ window = <<>>
       /\ xrequests = <<>>
       /\ ~vb /\ ~program
       /\ event = "none" /\ ticks = 0
       /\ pc = "exited" =>
             /\ Len(diag) = 1
             /\ diag[1] = IF argv.monitor \in BadMonitorArgs
                          THEN "Monitor ID must be an integer"
                          ELSE "Target frames per second must be integer"
       /\ pc # "exited" => diag = <<>>

\* C8 witness: monitor argument "abc", exited with the diagnostic.
BadArgumentWitness ==
    /\ argv.monitor = <<"a", "b", "c">>
    /\ pc = "exited"
    /\ diag = <<"Monitor ID must be an integer">>
    /\ ~capturer

\* C9 as stated: every texture has the size of the startup geometry.
TextureHasStartupGeometry ==
    dest_texture # <<>> => dest_texture = geo

\* C9 amended: every texture has the size its captured frame reports (the
\* startup geometry exactly when the frame reports that), and what is
\* presented has the size of its texture; the window keeps the startup size.
TextureHasFrameSize ==
    /\ dest_texture # <<>> =>
          /\ dest_texture = captured_frame
          /\ window.size = <<AsI32(geo[1]), AsI32(geo[2])>>
          /\ dest_texture = geo <=> captured_frame = geo
    /\ pc \in {"elapsed", "set_next", "arm"} => presented = dest_texture

\* C9 witness: in the second tick a frame reports a size other than the
\* startup geometry and the texture is built.
TextureSizeWitness ==
    /\ ticks = 2
    /\ pc = "draw"
    /\ dest_texture # <<>>
    /\ captured_frame # geo

\* C10 as stated: the fragment stage applied twice gives back every channel.
SwizzleRoundTrip ==
    px.n = 2 => px.cur = px.orig

\* C10 amended: applied once the stage swaps red and blue, keeps green and
\* sets alpha to full scale; applied twice it gives back red, green and blue,
\* with alpha at full scale.
SwizzleRoundTripRgb ==
    /\ px.n = 1 =>
          /\ px.cur.r = px.orig.b /\ px.cur.b = px.orig.r
          /\ px.cur.g = px.orig.g /\ px.cur.a = FullScale
    /\ px.n = 2 =>
          /\ px.cur.r = px.orig.r /\ px.cur.g = px.orig.g
          /\ px.cur.b = px.orig.b /\ px.cur.a = FullScale

\* C10 witness: a pixel with distinct channels and an alpha below full scale,
\* after two applications.
SwizzleWitness ==
    /\ px.n = 2
    /\ px.orig.r # px.orig.b /\ px.orig.g # px.orig.r
    /\ px.orig.a # FullScale
    /\ px.cur.r = px.orig.r /\ px.cur.b = px.orig.b

\* the diagnostics of the four steps of a tick, in the order of the steps
TickFailures ==
    <<"Failed to capture frame", "Unable to create texture",
      "Unable to execute shader", "Buffer swap failed">>
TickOrder == <<"capture", "texture", "draw", "present">>

\* C11: a failing step of a tick ends the process there: the steps after it
\* are not executed in that tick, next_iteration and control_flow are not
\* written, the step is not called again and no tick follows.
TickFailureAborts ==
    /\ [](diag # <<>> => pc \in {"exited", "panicked"})
    /\ [](\A k \in 1..4 :
            (diag # <<>> /\ diag[Len(diag)] = TickFailures[k]) =>
               /\ Len(diag) = 1
               /\ ticks >= 1
               /\ \A j \in 1..4 :
                     calls[TickOrder[j]] = IF j <= k THEN ticks ELSE ticks - 1)
    /\ [][/\ (pc \in TickPcs /\ pc' = "panicked") =>
                /\ pc \in {"capture", "texture", "draw", "finish"}
                /\ next_iteration' = next_iteration
                /\ control_flow' = control_flow
                /\ presented' = presented
                /\ ticks' = ticks
                /\ diag' # diag
          /\ pc = "panicked" => (pc' = "panicked" /\ calls' = calls /\ ticks' = ticks)
         ]_vars

\* C11 witness: the draw call of the second tick failed: two captures, two
\* textures, two draw calls, one swap, and the process is gone.
TickFailureWitness ==
    /\ pc = "panicked"
    /\ ticks = 2
    /\ diag = <<"Unable to execute shader">>
    /\ calls["draw"] = 2
    /\ calls["present"] = 1

\* C12: control_flow turns to Exit only in the step that handles
\* CloseRequested, and the loop ends normally only with control_flow at Exit.
ExitOnlyOnClose ==
    /\ [][(control_flow # Exit /\ control_flow' = Exit) =>
             (pc = "drain" /\ event' = "CloseRequested")]_vars
    /\ [](pc \in {"loop_destroyed", "done"} => control_flow = Exit)

\* C12 witness: a close request handled after an early wakeup that followed
\* two ticks.
ExitOnlyOnCloseWitness ==
    /\ control_flow = Exit
    /\ event = "CloseRequested"
    /\ pc = "drain"
    /\ ticks = 2
    /\ early_wakeup

\* C13: the capture source is opened only with a positive target_fps, and the
\* division of main.rs:89 never panics.
PositiveFpsBeforeCapture ==
    /\ capturer => target_fps > 0
    /\ "attempt to divide by zero" \notin {diag[i] : i \in 1..Len(diag)}

\* the closure has returned from the first NewEvents event (a panic with
\* ticks = 1 is a failure inside the first tick)
FirstNewEventsHandled ==
    /\ event # "none"
    /\ ~(ticks <= 1 /\ pc \in TickPcs \cup {"panicked"})
    /\ ~(ticks = 0 /\ pc = "rearm")

\* the closure is not running: the states in which the event loop reads
\* control_flow
ClosureReturnedPcs ==
    {"new_events", "drain", "redraw", "check", "poll", "loop_destroyed", "done"}

\* C14: once the first NewEvents event has been handled control_flow is never
\* Poll, and whenever the closure has returned it is Exit or a WaitUntil of the
\* current next_iteration.  (Inside a tick arm, between the writes of
\* main.rs:195 and main.rs:201, it still is the WaitUntil of the last deadline.)
NeverBusyPolls ==
    FirstNewEventsHandled =>
       /\ control_flow # Poll
       /\ pc \in ClosureReturnedPcs =>
             control_flow \in {Exit, WaitUntil(next_iteration)}
       /\ pc \notin {"arm", "panicked"} =>
             control_flow \in {Exit, WaitUntil(next_iteration)}

\* C14 witness: waiting after the second tick, before its deadline, on that
\* deadline.
NeverBusyPollsWitness ==
    /\ pc = "poll"
    /\ ticks = 2
    /\ now < next_iteration
    /\ control_flow = WaitUntil(next_iteration)

\* the events that reach neither a NewEvents arm nor the CloseRequested arm
PassiveEvents ==
    {"WindowEvent", "MainEventsCleared", "RedrawEventsCleared", "LoopDestroyed"}

\* C15: the step that hands any other event to the closure captures and draws
\* nothing and leaves next_iteration and control_flow as they are, whatever
\* the clock says.
PassiveEventsChangeNothing ==
    [][(pc \in {"drain", "redraw", "loop_destroyed"} /\ event' \in PassiveEvents) =>
          /\ next_iteration' = next_iteration
          /\ control_flow' = control_flow
          /\ calls' = calls
          /\ ticks' = ticks
          /\ presented' = presented
          /\ start_time' = start_time
          /\ pc' \notin TickPcs \cup {"rearm"}]_vars

\* C15 witness: a window event handled when the deadline of the last tick has
\* already passed; the wait is still the one that tick armed.
PassiveEventsWitness ==
    /\ pc = "drain"
    /\ event = "WindowEvent"
    /\ ticks = 1
    /\ target_duration > 0
    /\ now >= next_iteration
    /\ control_flow = WaitUntil(next_iteration)
    /\ \A op \in TickOps : calls[op] = 1

\* the clock of the model has stopped short of the pending deadline
ClockExhausted == now >= MaxTime * Quantum /\ next_iteration > now

\* C16: when the wait ends at its deadline at the latest, time passes and no
\* step fails, a completed tick is followed by the start of another tick,
\* unless a close request is handled first (or the model's bound on ticks or
\* on the clock is reached).
NextTickEventually ==
    (pc = "drain" /\ event = "NewEvents" /\ ~early_wakeup)
       ~> \/ pc = "tick_start"
          \/ control_flow = Exit
          \/ ticks >= MaxTicks
          \/ ClockExhausted

\* C16 witness: the second tick starts, on a NewEvents event at or after the
\* deadline the first tick set one target interval ahead.
NextTickWitness ==
    /\ pc = "tick_start"
    /\ ticks = 1
    /\ event = "NewEvents"
    /\ ~early_wakeup
    /\ target_duration = 4
    /\ next_iteration = 4
    /\ now = 5

\* how many of the four operations the running tick has completed when the
\* thread is at position p (all four outside a tick)
StepsDone(p) ==
    CASE p = "capture" -> 0
      [] p = "texture" -> 1
      [] p = "draw" -> 2
      [] p = "finish" -> 3
      [] OTHER -> 4

\* C17: in each tick capture, texture, draw and present happen once each and
\* in this order, then next_iteration is written, then the wait is armed; the
\* measured duration runs from before the capture to after the present; a
\* tick starts only when the tick before it has presented, written
\* next_iteration and armed the wait.
TickStepsInOrder ==
    /\ [](pc # "panicked" =>
            \A j \in 1..4 :
               calls[TickOrder[j]] =
                  IF pc = "tick_start" \/ j <= StepsDone(pc) THEN ticks
                  ELSE ticks - 1)
    /\ [](pc \in {"set_next", "arm"} =>
            (duration >= 0 /\ start_time + duration <= now))
    /\ [][/\ (pc = "tick_start" /\ pc' = "capture") =>
                /\ start_time' = now
                /\ ticks' = ticks + 1
                /\ \A op \in TickOps : calls[op] = ticks
                /\ ticks >= 1 => control_flow = WaitUntil(next_iteration)
          /\ (pc = "elapsed" /\ pc' = "set_next") =>
                /\ duration' = now - start_time
                /\ calls["present"] = ticks
          /\ pc \in TickPcs \ {"set_next"} => next_iteration' = next_iteration
          /\ pc \in TickPcs \ {"arm"} => control_flow' = control_flow
          /\ (pc = "arm" /\ pc' # pc) =>
                (pc' = "drain" /\ control_flow' = WaitUntil(next_iteration))
         ]_vars

\* C17 witness: the second tick, which took time, about to arm its wait with
\* every operation done twice.
TickStepsWitness ==
    /\ pc = "arm"
    /\ ticks = 2
    /\ duration > 0
    /\ \A op \in TickOps : calls[op] = 2

\* the positions of main and of the startup sequence
StartupPcs ==
    {"parse_monitor", "parse_fps", "settings", "open", "geometry", "target",
     "window", "position", "property", "flush", "vertex_buffer", "shaders",
     "init_pacing"}

\* C18: the startup steps happen in the order capture source, geometry,
\* window, move (off-screen only), WM_STATE request, flush, quad, shading
\* program, and all of them before the event loop starts; what they set up
\* is set up once and no step of the loop touches it.
StartupOnceInOrder ==
    /\ [](/\ geo # <<>> => capturer
          /\ window # <<>> => geo # <<>>
          /\ xrequests # <<>> =>
                /\ window # <<>>
                /\ window.position # <<>> <=> offscreen
          /\ xflushed > 0 => Len(xrequests) = 1
          /\ vb => xflushed = 1
          /\ program => vb
          /\ (pc \in LoopPcs \cup {"done"} \/ event # "none" \/ ticks > 0) =>
                (capturer /\ window # <<>> /\ xflushed = 1 /\ vb /\ program))
    /\ [][/\ capturer => capturer'
          /\ geo # <<>> => geo' = geo
          /\ (window # <<>> /\ pc # "position") => window' = window
          /\ xrequests # <<>> => xrequests' = xrequests
          /\ xflushed > 0 => xflushed' = xflushed
          /\ vb => vb'
          /\ program => program'
          /\ pc \in LoopPcs => (pc' \notin StartupPcs /\ UNCHANGED setupVars)
         ]_vars

\* C18 witness: off-screen, everything set up and the loop about to hand the
\* closure its first event.
StartupWitness ==
    /\ pc = "new_events"
    /\ event = "none"
    /\ ticks = 0
    /\ offscreen
    /\ capturer /\ vb /\ program
    /\ window.position = <<-2, -1>>
    /\ xflushed = 1

\* C19: when the loop hands the closure its first NewEvents event,
\* next_iteration is an instant already reached, so the event is no early
\* wakeup and starts the first tick.
FirstEventTicks ==
    /\ []((pc \in LoopPcs /\ event = "none") =>
             (pc = "new_events" /\ ticks = 0 /\ next_iteration <= now))
    /\ [](ticks = 0 => pc # "rearm")
    /\ [][(event = "none" /\ event' # "none") =>
             /\ event' = "NewEvents"
             /\ ~early_wakeup'
             /\ pc' = "tick_start"]_vars

\* C19 witness: the first NewEvents event, handled at the very instant
\* next_iteration was initialised with, goes to the tick arm.
FirstEventWitness ==
    /\ pc = "tick_start"
    /\ ticks = 0
    /\ event = "NewEvents"
    /\ ~early_wakeup
    /\ target_duration > 0
    /\ now = next_iteration
    /\ now > 0

===========================================================================
